---------------------------- MODULE Spec2Model ----------------------------
(***************************************************************************)
(* RAMP (src/ramp.py): parsing, validation and formatting of RAMP strings  *)
(* `[~]layer/protocol[:params][#meta]`.                                    *)
(*                                                                         *)
(* A Python str is a sequence of code points; each code point is a TLA+    *)
(* string ("P", "/", "\n", or a name such as "U+2500" for a code point     *)
(* outside ASCII).  Optional[T] is a sequence of length 0 (None) or 1.     *)
(* A call that may raise yields [raised |-> BOOLEAN, value |-> ...].       *)
(***************************************************************************)
EXTENDS Integers, Sequences, FiniteSets, TLC

VARIABLES ramp, ascii, pc, node, out

vars == <<ramp, ascii, pc, node, out>>

-----------------------------------------------------------------------------
(* Python values *)

None == <<>>

Some(x) == <<x>>

Ret(v) == [raised |-> FALSE, value |-> v]

Raise(e) == [raised |-> TRUE, value |-> e]

\* bool(x) of an Optional[str]: None and "" are falsy.
Truthy(opt) == opt # None /\ opt[1] # <<>>

LowerLetters == <<"a", "b", "c", "d", "e", "f", "g", "h", "i", "j", "k", "l", "m",
                  "n", "o", "p", "q", "r", "s", "t", "u", "v", "w", "x", "y", "z">>

UpperLetters == <<"A", "B", "C", "D", "E", "F", "G", "H", "I", "J", "K", "L", "M",
                  "N", "O", "P", "Q", "R", "S", "T", "U", "V", "W", "X", "Y", "Z">>

Range(f) == {f[i] : i \in DOMAIN f}

\* [A-Z], [a-z], \d (the ASCII digits: the model's alphabet has no other
\* Unicode decimal digit).
AZ == Range(UpperLetters)

az == Range(LowerLetters)

Digits == {"0", "1", "2", "3", "4", "5", "6", "7", "8", "9"}

\* str.upper() on one code point of the model's alphabet.
upper_char(c) ==
    IF c \in az
    THEN UpperLetters[CHOOSE i \in DOMAIN LowerLetters : LowerLetters[i] = c]
    ELSE c

\* str.upper()
upper(s) == [i \in DOMAIN s |-> upper_char(s[i])]

\* sep.join(parts)
RECURSIVE join(_, _)
join(sep, parts) ==
    IF parts = <<>> THEN <<>>
    ELSE IF Len(parts) = 1 THEN parts[1]
    ELSE parts[1] \o sep \o join(sep, Tail(parts))

\* s.split(sep) for a one-code-point separator: always at least one field.
RECURSIVE split(_, _)
split(s, sep) ==
    IF \A i \in DOMAIN s : s[i] # sep THEN <<s>>
    ELSE LET i == CHOOSE i \in DOMAIN s :
                      s[i] = sep /\ \A j \in 1..(i - 1) : s[j] # sep
         IN  <<SubSeq(s, 1, i - 1)>> \o split(SubSeq(s, i + 1, Len(s)), sep)

\* str(n) for 0 <= n <= 99.
str(n) ==
    LET d == <<"0", "1", "2", "3", "4", "5", "6", "7", "8", "9">>
    IN  IF n < 10 THEN <<d[n + 1]>> ELSE <<d[(n \div 10) + 1], d[(n % 10) + 1]>>

-----------------------------------------------------------------------------
(* Regular expressions (re.match without flags) *)

\* `$` after `pos` code points have been consumed: the end of the string, or
\* just before a line feed that ends the string.
AtDollar(s, pos) ==
    \/ pos = Len(s)
    \/ pos = Len(s) - 1 /\ s[Len(s)] = "\n"

\* A pattern ^ item* $ where each item is a character class repeated lo..hi
\* times (hi = -1: unbounded).
Rep(cs, lo, hi) == [cs |-> cs, lo |-> lo, hi |-> hi]

Lit(c) == Rep({c}, 1, 1)

RECURSIVE re_match_from(_, _, _, _)
re_match_from(pat, i, s, pos) ==
    IF i > Len(pat) THEN AtDollar(s, pos)
    ELSE LET it == pat[i]
             left == Len(s) - pos
             top == IF it.hi = -1 \/ it.hi > left THEN left ELSE it.hi
         IN  \E k \in it.lo..top :
                 /\ \A j \in (pos + 1)..(pos + k) : s[j] \in it.cs
                 /\ re_match_from(pat, i + 1, s, pos + k)

\* bool(re.match(pat, s))
re_match(pat, s) == re_match_from(pat, 1, s, 0)


-----------------------------------------------------------------------------
(* RAMPNode *)

RAMPNode(is_person, layer, protocol, params, meta) ==
    [is_person |-> is_person, layer |-> layer, protocol |-> protocol,
     params |-> params, meta |-> meta]

to_uri(n) ==
    LET base == (IF n.is_person THEN <<"~">> ELSE <<>>)
                    \o <<n.layer, "/", n.protocol>>
        withParams == IF Truthy(n.params) THEN base \o <<":">> \o n.params[1]
                      ELSE base
    IN  IF Truthy(n.meta) THEN withParams \o <<"#">> \o n.meta[1]
        ELSE withParams

-----------------------------------------------------------------------------
(* RAMPValidator *)

HexDigits == Digits \cup {"A", "B", "C", "D", "E", "F", "a", "b", "c", "d", "e", "f"}

AlNum == az \cup AZ \cup Digits

\* PATTERNS['MAC'] = ^([0-9A-Fa-f]{2}[:-]){5}([0-9A-Fa-f]{2})$
PATTERN_MAC ==
    LET octet == <<Rep(HexDigits, 2, 2), Rep({":", "-"}, 1, 1)>>
    IN  octet \o octet \o octet \o octet \o octet \o <<Rep(HexDigits, 2, 2)>>

\* PATTERNS['CHAN'] = ^\d{1,3}$
PATTERN_CHAN == <<Rep(Digits, 1, 3)>>

\* PATTERNS['MASK'] = ^\d{1,2}$
PATTERN_MASK == <<Rep(Digits, 1, 2)>>

\* PATTERNS['ONION'] = ^[a-z2-7]{56}\.onion$
PATTERN_ONION ==
    <<Rep(az \cup {"2", "3", "4", "5", "6", "7"}, 56, 56),
      Lit("."), Lit("o"), Lit("n"), Lit("i"), Lit("o"), Lit("n")>>

\* PATTERNS['ASN'] = ^\d{1,10}$
PATTERN_ASN == <<Rep(Digits, 1, 10)>>

\* PATTERNS['USER'] = ^@?[a-zA-Z0-9_.-]+$
PATTERN_USER == <<Rep({"@"}, 0, 1), Rep(AlNum \cup {"_", ".", "-"}, 1, -1)>>

\* PATTERNS['HOST'] = ^[a-zA-Z0-9.-]+$
PATTERN_HOST == <<Rep(AlNum \cup {".", "-"}, 1, -1)>>

\* The LoRa frequency pattern ^\d+\.\d{3}$ of _validate_params.
PATTERN_LORA_FREQ == <<Rep(Digits, 1, -1), Lit("."), Rep(Digits, 3, 3)>>

\* Mutant of SYNTAX_MIN_PARAMS: [^#]* in group 4.
SYNTAX_MIN_PARAMS_star == 1 - 1

\* [^#]+ of group 4: the least number of code points after the ':'.
SYNTAX_MIN_PARAMS == 1

\* re.match(PATTERNS['SYNTAX'], s) with
\*   SYNTAX = ^(~)?([A-Z])\/([A-Z])(:[^#]+)?(#.+)?$
\* None, or Some of the groups.  Groups 4 and 5 span k and m code points
\* (0: the group took no part); the regex engine prefers the longest group 4,
\* then the longest group 5.  '.' matches no line feed.  `$` holds only with
\* all of s, or all but its last code point, consumed: no other m is tried.
re_match_SYNTAX(s) ==
    LET n == Len(s)
        h == IF n >= 1 /\ s[1] = "~" THEN 1 ELSE 0
        b == h + 3
        fixed == /\ n >= b
                 /\ s[h + 1] \in AZ
                 /\ s[h + 2] = "/"
                 /\ s[h + 3] \in AZ
        G4(k) == \/ k = 0
                 \/ /\ k >= 1 + SYNTAX_MIN_PARAMS
                    /\ s[b + 1] = ":"
                    /\ \A j \in (b + 2)..(b + k) : s[j] # "#"
        G5(k, m) == \/ m = 0
                    \/ /\ m >= 2
                       /\ s[b + k + 1] = "#"
                       /\ \A j \in (b + k + 2)..(b + k + m) : s[j] # "\n"
        ways == {km \in (0..(n - b)) \X (0..(n - b)) :
                    /\ km[1] + km[2] \in {n - b - 1, n - b}
                    /\ AtDollar(s, b + km[1] + km[2])
                    /\ G4(km[1])
                    /\ G5(km[1], km[2])}
        best == CHOOSE km \in ways :
                    \A o \in ways : o[1] < km[1] \/ (o[1] = km[1] /\ o[2] <= km[2])
    IN  IF ~fixed THEN None
        ELSE IF ways = {} THEN None
        ELSE Some([g1 |-> IF h = 1 THEN Some(<<"~">>) ELSE None,
                   g2 |-> s[h + 1],
                   g3 |-> s[h + 3],
                   g4 |-> IF best[1] = 0 THEN None
                          ELSE Some(SubSeq(s, b + 1, b + best[1])),
                   g5 |-> IF best[2] = 0 THEN None
                          ELSE Some(SubSeq(s, b + best[1] + 1, b + best[1] + best[2]))])

\* p[i] for every i < need, or IndexError.
HasFields(p, need) == Len(p) >= need

\* Mutant of no_rule: a protocol without a rule is refused.
no_rule_refused == Ret(FALSE)

\* The `return True` that ends the try block: no rule for this protocol.
no_rule == Ret(TRUE)

\* The body of _validate_params' try block: Ret(True), Ret(False), or the
\* IndexError of a p[i] beyond the list.  all([...]) builds its whole list
\* first, so LoRa indexes p[0]..p[3] whatever the first checks give.
validate_rules(n) ==
    LET p == split(n.params[1], "/")
        l == n.layer
        proto == n.protocol
    IN  IF l = "P" /\ proto = "L" THEN
            IF ~HasFields(p, 4) THEN Raise("IndexError")
            ELSE Ret(/\ re_match(PATTERN_LORA_FREQ, p[1])
                     /\ p[2] \in {str(i) : i \in 7..12}
                     /\ p[3] \in {<<"1", "2", "5">>, <<"2", "5", "0">>, <<"5", "0", "0">>}
                     /\ p[4] \in {str(i) : i \in 5..8})
        ELSE IF l = "P" /\ proto = "B" THEN Ret(re_match(PATTERN_MAC, p[1]))
        ELSE IF l = "P" /\ proto \in {"W", "Z"} THEN Ret(re_match(PATTERN_CHAN, p[1]))
        ELSE IF l = "N" /\ proto = "A" THEN Ret(re_match(PATTERN_ASN, p[1]))
        ELSE IF l = "N" /\ proto \in {"I", "6"} THEN
            IF ~HasFields(p, 2) THEN Raise("IndexError")
            ELSE Ret(re_match(PATTERN_MASK, p[2]))
        ELSE IF l = "N" /\ proto = "O" THEN Ret(re_match(PATTERN_ONION, p[1]))
        ELSE IF l = "A" /\ proto = "M" THEN Ret(re_match(PATTERN_USER, p[1]))
        ELSE IF l = "A" /\ proto \in {"H", "G"} THEN Ret(re_match(PATTERN_HOST, p[1]))
        ELSE no_rule

\* Mutant of _validate_params: no except clause, the IndexError escapes.
_validate_params_no_except(n) ==
    IF ~Truthy(n.params) THEN Ret(TRUE) ELSE validate_rules(n)

\* try: ... except: return False
_validate_params(n) ==
    IF ~Truthy(n.params) THEN Ret(TRUE)
    ELSE LET r == validate_rules(n)
         IN  IF r.raised THEN Ret(FALSE) ELSE r

\* The input is upper-cased as a whole before it is matched.
validate(ramp_string) ==
    LET match == re_match_SYNTAX(upper(ramp_string))
    IN  IF match = None THEN Ret(None)
        ELSE LET g == match[1]
                 n == RAMPNode(Truthy(g.g1), g.g2, g.g3,
                               IF Truthy(g.g4) THEN Some(Tail(g.g4[1])) ELSE None,
                               IF Truthy(g.g5) THEN Some(Tail(g.g5[1])) ELSE None)
                 ok == _validate_params(n)
             IN  IF ok.raised THEN ok
                 ELSE IF ok.value THEN Ret(Some(n)) ELSE Ret(None)


-----------------------------------------------------------------------------
(* RAMPDescriptor *)

\* PROTOCOLS[layer][protocol], keyed by the pair; the icons are code points
\* outside ASCII (Zigbee's is two code points long).
PROTOCOLS ==
    <<"P", "L">> :> [name |-> <<"L", "o", "R", "a">>, icon |-> <<"U+1F4E1">>, needs_qr |-> FALSE] @@
    <<"P", "R">> :> [name |-> <<"R", "a", "d", "i", "o">>, icon |-> <<"U+1F4FB">>, needs_qr |-> FALSE] @@
    <<"P", "W">> :> [name |-> <<"W", "i", "F", "i">>, icon |-> <<"U+1F4F6">>, needs_qr |-> FALSE] @@
    <<"P", "B">> :> [name |-> <<"B", "L", "E">>, icon |-> <<"U+1F9B7">>, needs_qr |-> FALSE] @@
    <<"P", "Z">> :> [name |-> <<"Z", "i", "g", "b", "e", "e">>, icon |-> <<"U+1F578", "U+FE0F">>, needs_qr |-> FALSE] @@
    <<"N", "A">> :> [name |-> <<"A", "S">>, icon |-> <<"U+1F310">>, needs_qr |-> FALSE] @@
    <<"N", "I">> :> [name |-> <<"I", "P", "v", "4">>, icon |-> <<"U+1F310">>, needs_qr |-> FALSE] @@
    <<"N", "6">> :> [name |-> <<"I", "P", "v", "6">>, icon |-> <<"U+1F310">>, needs_qr |-> FALSE] @@
    <<"N", "O">> :> [name |-> <<"T", "o", "r">>, icon |-> <<"U+1F9C5">>, needs_qr |-> TRUE] @@
    <<"A", "M">> :> [name |-> <<"M", "a", "t", "r", "i", "x">>, icon |-> <<"U+1F4AC">>, needs_qr |-> TRUE] @@
    <<"A", "I">> :> [name |-> <<"I", "R", "C">>, icon |-> <<"U+1F4AC">>, needs_qr |-> TRUE] @@
    <<"A", "H">> :> [name |-> <<"H", "T", "T", "P">>, icon |-> <<"U+1F310">>, needs_qr |-> TRUE] @@
    <<"A", "G">> :> [name |-> <<"G", "e", "m", "i", "n", "i">>, icon |-> <<"U+1F680">>, needs_qr |-> TRUE]

\* One entry of the dict a 'format' lambda builds.
Item(k, v) == [k |-> k, v |-> v]

\* proto['format'](p): the dict's items in insertion order, or the IndexError
\* of a p[i] beyond the list.
format_params(key, p) ==
        IF key = <<"P", "L">> THEN
            IF ~HasFields(p, 4) THEN Raise("IndexError")
            ELSE Ret(<<Item(<<"f", "r", "e", "q">>, p[1] \o <<" ", "M", "H", "z">>),
                       Item(<<"s", "p", "r", "e", "a", "d">>, p[2]),
                       Item(<<"b", "w">>, p[3] \o <<" ", "k", "H", "z">>),
                       Item(<<"r", "a", "t", "e">>, <<"4", "/">> \o p[4])>>)
        ELSE IF key = <<"P", "W">> THEN
            IF ~HasFields(p, 2) THEN Raise("IndexError")
            ELSE Ret(<<Item(<<"c", "h">>, p[1]),
                       Item(<<"b", "w">>, p[2] \o <<" ", "M", "H", "z">>)>>)
        ELSE IF key = <<"N", "O">> THEN
            IF ~HasFields(p, 2) THEN Raise("IndexError")
            ELSE Ret(<<Item(<<"o", "n", "i", "o", "n">>, p[1]),
                       Item(<<"p", "o", "r", "t">>, p[2]),
                       Item(<<"t", "y", "p", "e">>,
                            IF Len(p) > 2 THEN p[3] ELSE <<"H", "S">>)>>)
        ELSE IF key = <<"P", "R">> THEN
            IF ~HasFields(p, 2) THEN Raise("IndexError")
            ELSE Ret(<<Item(<<"f", "r", "e", "q">>, p[1]), Item(<<"m", "o", "d", "e">>, p[2])>>)
        ELSE IF key = <<"P", "B">> THEN
            IF ~HasFields(p, 2) THEN Raise("IndexError")
            ELSE Ret(<<Item(<<"m", "a", "c">>, p[1]), Item(<<"t", "y", "p", "e">>, p[2])>>)
        ELSE IF key = <<"P", "Z">> THEN
            IF ~HasFields(p, 2) THEN Raise("IndexError")
            ELSE Ret(<<Item(<<"c", "h">>, p[1]), Item(<<"p", "a", "n">>, p[2])>>)
        ELSE IF key = <<"N", "A">> THEN
            IF ~HasFields(p, 2) THEN Raise("IndexError")
            ELSE Ret(<<Item(<<"a", "s", "n">>, p[1]), Item(<<"p", "r", "e", "f", "i", "x">>, p[2])>>)
        ELSE IF key = <<"N", "I">> THEN
            IF ~HasFields(p, 2) THEN Raise("IndexError")
            ELSE Ret(<<Item(<<"n", "e", "t">>, p[1]), Item(<<"m", "a", "s", "k">>, p[2])>>)
        ELSE IF key = <<"N", "6">> THEN
            IF ~HasFields(p, 2) THEN Raise("IndexError")
            ELSE Ret(<<Item(<<"n", "e", "t">>, p[1]), Item(<<"p", "r", "e", "f", "i", "x">>, p[2])>>)
        ELSE IF key = <<"A", "M">> THEN
            IF ~HasFields(p, 2) THEN Raise("IndexError")
            ELSE Ret(<<Item(<<"u", "s", "e", "r">>, p[1]), Item(<<"r", "o", "o", "m">>, p[2])>>)
        ELSE IF key = <<"A", "I">> THEN
            IF ~HasFields(p, 2) THEN Raise("IndexError")
            ELSE Ret(<<Item(<<"s", "r", "v">>, p[1]), Item(<<"c", "h">>, p[2])>>)
        ELSE IF key = <<"A", "H">> THEN
            IF ~HasFields(p, 2) THEN Raise("IndexError")
            ELSE Ret(<<Item(<<"h", "o", "s", "t">>, p[1]), Item(<<"p", "a", "t", "h">>, p[2])>>)
        ELSE IF key = <<"A", "G">> THEN
            IF ~HasFields(p, 2) THEN Raise("IndexError")
            ELSE Ret(<<Item(<<"h", "o", "s", "t">>, p[1]), Item(<<"p", "a", "t", "h">>, p[2])>>)
        ELSE Raise("KeyError")

\* Mutant of info_params: the params are not split into fields.
info_params_unsplit(n) == IF Truthy(n.params) THEN <<n.params[1]>> ELSE <<>>

\* params = node.params.split('/') if node.params else []
info_params(n) == IF Truthy(n.params) THEN split(n.params[1], "/") ELSE <<>>

\* get_info: {} (None here) or Some of the info dict.  proto.get('description', '')
\* is always '': no entry of PROTOCOLS has a description.
get_info(n) ==
    LET key == <<n.layer, n.protocol>>
    IN  IF key \notin DOMAIN PROTOCOLS THEN None
        ELSE LET proto == PROTOCOLS[key]
                 formatted == format_params(key, info_params(n))
             IN  IF formatted.raised THEN None
                 ELSE Some([name |-> proto.name,
                            icon |-> proto.icon,
                            params |-> formatted.value,
                            description |-> <<>>,
                            needs_qr |-> proto.needs_qr])

-----------------------------------------------------------------------------
(* RAMPFormatter *)

\* f"{k}: {v}" for every item of info['params'], then "ID: <meta>".
field_lines(n, info) ==
    [i \in DOMAIN info.params |-> info.params[i].k \o <<":", " ">> \o info.params[i].v]
        \o (IF Truthy(n.meta) THEN <<<<"I", "D", ":", " ">> \o n.meta[1]>> ELSE <<>>)

format(n) ==
    LET info == get_info(n)
    IN  IF info = None THEN to_uri(n)
        ELSE join(<<"\n">>,
                  <<info[1].name \o <<" ", "(">> \o info[1].description \o <<")">>>>
                      \o field_lines(n, info[1]))

\* The content lines of the label.
ascii_lines(n, info) == <<info.icon \o <<" ">> \o info.name>> \o field_lines(n, info)

\* max(len(line) for line in lines)
max_len(lines) ==
    CHOOSE m \in {Len(lines[i]) : i \in DOMAIN lines} :
        \A i \in DOMAIN lines : Len(lines[i]) <= m

repeat(c, k) == [i \in 1..k |-> c]

\* width = max(...) + 4
BOX_MARGIN == 4

box_width(lines) == max_len(lines) + BOX_MARGIN

\* Mutant of box_padding: the half is rounded up.
box_padding_rounded_up(width, line) == repeat(" ", (width - Len(line) + 1) \div 2)

\* " " * ((width - len(line)) // 2)
box_padding(width, line) == repeat(" ", (width - Len(line)) \div 2)

format_ascii(n) ==
    LET info == get_info(n)
    IN  IF info = None THEN to_uri(n)
        ELSE LET lines == ascii_lines(n, info[1])
                 width == box_width(lines)
                 border == <<"U+250C">> \o repeat("U+2500", width) \o <<"U+2510">>
                 footer == <<"U+2514">> \o repeat("U+2500", width) \o <<"U+2518">>
                 row(line) == <<"U+2502">> \o box_padding(width, line) \o line
                                  \o box_padding(width, line) \o <<"U+2502">>
             IN  join(<<"\n">>,
                      <<border>> \o [i \in DOMAIN lines |-> row(lines[i])] \o <<footer>>)


-----------------------------------------------------------------------------
(* main(): the inputs *)

\* Bounds of the inputs.
MaxRest == 4

MaxFields == 4

\* All strings over the alphabet `cs` of length at most k.
RECURSIVE strings_upto(_, _)
strings_upto(cs, k) ==
    IF k = 0 THEN {<<>>}
    ELSE LET shorter == strings_upto(cs, k - 1)
         IN  shorter \cup {Append(t, c) : t \in shorter, c \in cs}

Heads == {<<>>, <<"~">>}

\* Grammar inputs: an optional '~', a layer, '/', a protocol, and every string
\* of at most MaxRest code points over ':', '#', a letter and a line feed.
GrammarInputs ==
    {h \o <<l, "/", p>> \o rest :
        h \in Heads, l \in {"P", "q"}, p \in {"R", "x"},
        rest \in strings_upto({":", "#", "a", "\n"}, MaxRest)}

\* The address of the specification's Tor example: 54 code points.
Onion54 ==
    <<"a", "b", "c", "d", "e", "f", "g", "h", "i", "j", "k", "l", "m", "n", "o", "p",
      "q", "r", "s", "t", "u", "v", "w", "x", "y", "z", "2", "3", "4", "5", "6", "7",
      "a", "b", "c", "d", "e", "f", "g", "h", "i", "j", "k", "l", "m", "n", "o", "p",
      "q", "r", "s", "t", "u", "v">>

\* A 56 code point lowercase base32 address.
Onion56 == Onion54 \o <<"w", "x">>

\* The values tried for the field at position i (1-based) of params.
FieldPool(i) ==
    IF i = 1 THEN {<<"8", "6", "8", ".", "1", "0", "0">>,
                   <<"8", "6", "8", ".", "1", "0">>,
                   <<"9", "9", "9">>,
                   <<"9", "9", "9", "9">>,
                   <<"1", "2", "\n">>,
                   <<"8", "6", "8", ".", "1", "0", "0", "\n">>,
                   <<"A", "A", ":", "B", "B", ":", "C", "C", ":", "D", "D", ":", "E", "E", ":", "F", "F">>,
                   Onion56 \o <<".", "o", "n", "i", "o", "n">>,
                   Onion54 \o <<".", "o", "n", "i", "o", "n">>,
                   <<"1", "2", "3", "4", "5", "6", "7", "8", "9", "0", "1">>,
                   <<"@", "a">>,
                   <<"a", "_", "b">>,
                   <<>>}
    ELSE IF i = 2 THEN {<<"7">>, <<"1", "2">>, <<"1", "3">>, <<"1", "2", "5">>}
    ELSE IF i = 3 THEN {<<"1", "2", "5">>, <<"1", "2", "6">>}
    ELSE IF i = 4 THEN {<<"5">>, <<"9">>}
    ELSE {<<"x">>}

\* Every list of exactly k fields, the i-th from FieldPool(i).
RECURSIVE field_lists(_)
field_lists(k) ==
    IF k = 0 THEN {<<>>}
    ELSE {Append(fs, f) : fs \in field_lists(k - 1), f \in FieldPool(k)}

\* The '~' prefix and the '#meta' put around a field input.
Decor == {<<<<>>, <<>>>>, <<<<"~">>, <<"#", "N", "O", "D", "E", "0", "1">>>>}

\* Field inputs: every protocol of the registry with 1..MaxFields fields.
FieldInputs ==
    {d[1] \o <<key[1], "/", key[2], ":">> \o join(<<"/">>, fs) \o d[2] :
        d \in Decor, key \in DOMAIN PROTOCOLS,
        fs \in UNION {field_lists(k) : k \in 1..MaxFields}}

-----------------------------------------------------------------------------
(* main(): the run *)

TypeOK ==
    /\ pc \in {"validate", "check", "raised", "exit", "done"}
    /\ ascii \in BOOLEAN

InitOn(inputs) ==
    /\ ramp \in inputs
    /\ ascii \in BOOLEAN
    /\ pc = "validate"
    /\ node = None
    /\ out = <<>>

Init == InitOn(GrammarInputs \cup FieldInputs)

\* node = validator.validate(args.ramp)
Validate ==
    /\ pc = "validate"
    /\ LET r == validate(ramp)
       IN  IF r.raised
           THEN pc' = "raised" /\ node' = node
           ELSE pc' = "check" /\ node' = r.value
    /\ UNCHANGED <<ramp, ascii, out>>

\* if not node: sys.exit("Invalid RAMP string")
Exit ==
    /\ pc = "check"
    /\ node = None
    /\ out' = <<"I", "n", "v", "a", "l", "i", "d", " ", "R", "A", "M", "P", " ",
                "s", "t", "r", "i", "n", "g">>
    /\ pc' = "exit"
    /\ UNCHANGED <<ramp, ascii, node>>

\* print(formatter.format_ascii(node))
FormatAscii ==
    /\ pc = "check"
    /\ node # None
    /\ ascii
    /\ out' = format_ascii(node[1])
    /\ pc' = "done"
    /\ UNCHANGED <<ramp, ascii, node>>

\* print(formatter.format(node))
Format ==
    /\ pc = "check"
    /\ node # None
    /\ ~ascii
    /\ out' = format(node[1])
    /\ pc' = "done"
    /\ UNCHANGED <<ramp, ascii, node>>

Next == Validate \/ Exit \/ FormatAscii \/ Format

Spec == Init /\ [][Next]_vars

SpecGrammar == InitOn(GrammarInputs) /\ [][Next]_vars

SpecFields == InitOn(FieldInputs) /\ [][Next]_vars


-----------------------------------------------------------------------------
(* Reading an input as the notation [~]layer/protocol[:params][#meta] *)

HeadLen(s) == IF Len(s) >= 1 /\ s[1] = "~" THEN 1 ELSE 0

\* s is [~]x/y, followed by anything.
HasPair(s) == Len(s) >= HeadLen(s) + 3 /\ s[HeadLen(s) + 2] = "/"

InputPair(s) == <<s[HeadLen(s) + 1], s[HeadLen(s) + 3]>>

\* s is [~]x/y:..., the ':' right after the protocol.
HasColon(s) == HasPair(s) /\ Len(s) >= HeadLen(s) + 4 /\ s[HeadLen(s) + 4] = ":"

\* The params run of such an input: from the ':' to the first '#' or the end.
InputParams(s) ==
    LET from == HeadLen(s) + 5
        hashes == {i \in from..Len(s) : s[i] = "#"}
        to == IF hashes = {} THEN Len(s)
              ELSE (CHOOSE i \in hashes : \A j \in hashes : i <= j) - 1
    IN  SubSeq(s, from, to)

InputFields(s) == split(InputParams(s), "/")

\* The input, as typed, names this protocol and has params.
IsFor(s, keys) == HasColon(s) /\ InputPair(s) \in keys

AllDigits(f, lo, hi) == Len(f) \in lo..hi /\ \A i \in DOMAIN f : f[i] \in Digits

Validated == pc \in {"check", "exit", "done"}

Accepted == Validated /\ node # None

-----------------------------------------------------------------------------
(* C1 *)

\* C1 (as claimed): whenever validate(s) returns a node n, n.to_uri() is s
\* upper-cased, with nothing else changed.
C1_RoundTrip == Accepted => to_uri(node[1]) = upper(ramp)

\* What does hold: the round trip loses at most one line feed that ends the
\* input.
RoundTripUpToLineFeed ==
    Accepted => \/ to_uri(node[1]) = upper(ramp)
                \/ to_uri(node[1]) \o <<"\n">> = upper(ramp)

-----------------------------------------------------------------------------
(* C3 *)

SyntacticallyValid(s) == re_match_SYNTAX(upper(s)) # None

Unrecognized(s) == HasPair(s) /\ InputPair(upper(s)) \notin DOMAIN PROTOCOLS

\* C3: a syntactically valid input whose (layer, protocol) pair is not in
\* PROTOCOLS, with or without params and meta, is never rejected and never
\* raises: validate returns a node, and format and format_ascii both return
\* exactly node.to_uri().
C3_UnrecognizedFallsBack ==
    /\ pc # "raised"
    /\ (SyntacticallyValid(ramp) /\ Unrecognized(ramp)) =>
          /\ Validated => node # None
          /\ pc = "done" => out = to_uri(node[1])
          /\ Accepted => /\ format(node[1]) = to_uri(node[1])
                         /\ format_ascii(node[1]) = to_uri(node[1])

\* An unrecognized protocol with params and meta has been printed as its URI.
C3_Witness ==
    /\ pc = "done"
    /\ ascii
    /\ ramp = <<"q", "/", "x", ":", "a", "#", "a">>
    /\ out = <<"Q", "/", "X", ":", "A", "#", "A">>

-----------------------------------------------------------------------------
(* C5 *)

\* The ':' is followed by an empty params run: by the end of the input or by
\* the '#' of the meta.
EmptyParams(s) == HasColon(s) /\ InputParams(s) = <<>>

\* C5 (as claimed): an input whose ':' is followed by an empty params run is
\* parsed into a node whose params is the empty string.
C5_EmptyParamsIsSome ==
    (Validated /\ EmptyParams(ramp) /\ HasPair(ramp) /\ InputPair(upper(ramp)) = <<"P", "R">>)
        => (node # None /\ node[1].params = Some(<<>>))

\* C5 (amended): an input whose ':' is followed by an empty params run is
\* rejected; a node's params is never the empty string: it is None when the
\* input has no ':' after the protocol, and a non-empty string otherwise.
C5_EmptyParamsRejected ==
    /\ (Validated /\ EmptyParams(ramp)) => node = None
    /\ Accepted => /\ node[1].params # Some(<<>>)
                   /\ HasColon(ramp) <=> node[1].params # None

\* "P/R:#a" has been rejected.
C5_Witness ==
    /\ pc = "exit"
    /\ ramp = <<"P", "/", "R", ":", "#", "a">>
    /\ EmptyParams(ramp)
    /\ node = None

-----------------------------------------------------------------------------
(* C2 *)

\* 56 code points of lowercase base32, then ".onion".
OnionShape(f) ==
    /\ Len(f) = 62
    /\ \A i \in 1..56 : f[i] \in az \cup {"2", "3", "4", "5", "6", "7"}
    /\ SubSeq(f, 57, 62) = <<".", "o", "n", "i", "o", "n">>

\* "N/O:<field 0>/<port>"
IsTorInput(s) ==
    /\ HeadLen(s) = 0
    /\ IsFor(s, {<<"N", "O">>})
    /\ Len(InputFields(s)) = 2
    /\ AllDigits(InputFields(s)[2], 1, 5)

\* C2: "N/O:<onion>/<port>" with a 56-character lowercase base32 onion
\* address followed by ".onion" is accepted as a node of layer 'N' and
\* protocol 'O'; an N/O input whose field 0 has another shape is rejected.
C2_TorAccepted ==
    (Validated /\ IsTorInput(ramp)) =>
        IF OnionShape(InputFields(ramp)[1])
        THEN node # None /\ node[1].layer = "N" /\ node[1].protocol = "O"
        ELSE node = None

-----------------------------------------------------------------------------
(* C4 *)

\* digits, '.', exactly three digits
FreqShape(f) ==
    \E d \in 1..(Len(f) - 4) :
        /\ Len(f) = d + 4
        /\ \A i \in 1..d : f[i] \in Digits
        /\ f[d + 1] = "."
        /\ \A i \in (d + 2)..(d + 4) : f[i] \in Digits

LoRaRule(p) ==
    /\ Len(p) >= 4
    /\ FreqShape(p[1])
    /\ p[2] \in {<<"7">>, <<"8">>, <<"9">>, <<"1", "0">>, <<"1", "1">>, <<"1", "2">>}
    /\ p[3] \in {<<"1", "2", "5">>, <<"2", "5", "0">>, <<"5", "0", "0">>}
    /\ p[4] \in {<<"5">>, <<"6">>, <<"7">>, <<"8">>}

\* C4: "P/L:<params>", with or without '~' and '#meta', is accepted if and
\* only if params has at least four '/'-separated fields, field 0 digits '.'
\* three digits, field 1 in 7..12, field 2 in {125, 250, 500}, field 3 in 5..8.
C4_LoRaRule ==
    (Validated /\ IsFor(ramp, {<<"P", "L">>})) =>
        (node # None <=> LoRaRule(InputFields(ramp)))

\* f without the one line feed that may end it.
ChompLineFeed(f) ==
    IF Len(f) >= 1 /\ f[Len(f)] = "\n" THEN SubSeq(f, 1, Len(f) - 1) ELSE f

\* What does hold: the LoRa rule, with field 0 read without a line feed that
\* ends it.
LoRaRuleUpToLineFeed ==
    (Validated /\ IsFor(ramp, {<<"P", "L">>})) =>
        (node # None <=>
            LET p == InputFields(ramp)
            IN  LoRaRule([p EXCEPT ![1] = ChompLineFeed(p[1])]))

-----------------------------------------------------------------------------
(* C6 *)

\* C6: "N/I:<net>/<m>" and "N/6:<net>/<m>" are accepted exactly when <m> is
\* one or two decimal digits, and the node then has the input's layer and
\* protocol ('N' and '6' for IPv6).
C6_MaskRule ==
    (Validated /\ IsFor(ramp, {<<"N", "I">>, <<"N", "6">>})
               /\ Len(InputFields(ramp)) >= 2
               /\ InputFields(ramp)[1] # <<>>) =>
        IF AllDigits(InputFields(ramp)[2], 1, 2)
        THEN /\ node # None
             /\ <<node[1].layer, node[1].protocol>> = InputPair(ramp)
        ELSE node = None

------------------------------------------------------------------------\* What does hold: the rule for IPv4.
MaskRuleIPv4 ==
    (Validated /\ IsFor(ramp, {<<"N", "I">>}) /\ Len(InputFields(ramp)) >= 2) =>
        IF AllDigits(InputFields(ramp)[2], 1, 2)
        THEN /\ node # None
             /\ <<node[1].layer, node[1].protocol>> = <<"N", "I">>
        ELSE node = None

-----
(* C8 *)

\* C8: "P/W:<params>" and "P/Z:<params>" are accepted if and only if field 0
\* is one to three decimal digits, whatever the further fields.
C8_ChannelRule ==
    (Validated /\ IsFor(ramp, {<<"P", "W">>, <<"P", "Z">>})) =>
        (node # None <=> AllDigits(InputFields(ramp)[1], 1, 3))

\* What does hold: the channel rule, with field 0 read without a line feed
\* that ends it.
ChannelRuleUpToLineFeed ==
    (Validated /\ IsFor(ramp, {<<"P", "W">>, <<"P", "Z">>})) =>
        (node # None <=> AllDigits(ChompLineFeed(InputFields(ramp)[1]), 1, 3))


-----------------------------------------------------------------------------
(* C7 *)

Spaces(k) == [i \in 1..k |-> " "]

HBars(k) == [i \in 1..k |-> "U+2500"]

\* The length of the longest of the lines.
Longest(lines) ==
    CHOOSE L \in 0..200 :
        /\ \A i \in DOMAIN lines : Len(lines[i]) <= L
        /\ \E i \in DOMAIN lines : Len(lines[i]) = L

\* A box was printed: the label of a recognized protocol whose fields
\* could be formatted.
BoxPrinted == pc = "done" /\ ascii /\ get_info(node[1]) # None

ContentLines == ascii_lines(node[1], get_info(node[1])[1])

\* L + 4 - k for content line i of length k.
Slack(i) == Longest(ContentLines) + 4 - Len(ContentLines[i])

\* C7: with L the length of the longest content line, the top and the bottom
\* border hold exactly L + 4 horizontal border characters between their
\* corners, and a content line of length k has floor((L + 4 - k) / 2) spaces
\* on each side: its row is one character shorter than the border when
\* L + 4 - k is odd.
C7_BoxGeometry ==
    BoxPrinted =>
        LET lines == ContentLines
            L == Longest(lines)
            top == <<"U+250C">> \o HBars(L + 4) \o <<"U+2510">>
            bottom == <<"U+2514">> \o HBars(L + 4) \o <<"U+2518">>
            row(i) == <<"U+2502">> \o Spaces(Slack(i) \div 2) \o lines[i]
                          \o Spaces(Slack(i) \div 2) \o <<"U+2502">>
        IN  /\ out = join(<<"\n">>, <<top>> \o [i \in DOMAIN lines |-> row(i)] \o <<bottom>>)
            /\ \A i \in DOMAIN lines : Len(row(i)) = Len(top) - (Slack(i) % 2)

\* A box with a row of odd slack (narrower than the border) and a row of even
\* slack has been printed.
C7_Witness ==
    /\ BoxPrinted
    /\ \E i \in DOMAIN ContentLines : Slack(i) % 2 = 1
    /\ \E i \in DOMAIN ContentLines : Slack(i) % 2 = 0 /\ Slack(i) > 4

-----------------------------------------------------------------------------
(* C9 *)

\* The rule of the input's protocol reads a field the params do not have.
MissingField(s) ==
    LET key == InputPair(upper(s))
        p == InputFields(upper(s))
    IN  \/ key = <<"P", "L">> /\ Len(p) < 4
        \/ key \in {<<"N", "I">>, <<"N", "6">>} /\ Len(p) < 2

\* A constraint the rule of the input's protocol checks fails on a field the
\* params have.
ConstraintFails(s) ==
    LET key == InputPair(upper(s))
        p == InputFields(upper(s))
    IN  \/ /\ key = <<"P", "L">>
           /\ \/ ~re_match(PATTERN_LORA_FREQ, p[1])
              \/ Len(p) >= 2 /\ ~(\E i \in 7..12 : p[2] = str(i))
              \/ Len(p) >= 3 /\ p[3] \notin {<<"1", "2", "5">>, <<"2", "5", "0">>,
                                             <<"5", "0", "0">>}
              \/ Len(p) >= 4 /\ ~(\E i \in 5..8 : p[4] = str(i))
        \/ key = <<"P", "B">> /\ ~re_match(PATTERN_MAC, p[1])
        \/ key \in {<<"P", "W">>, <<"P", "Z">>} /\ ~re_match(PATTERN_CHAN, p[1])
        \/ key = <<"N", "A">> /\ ~re_match(PATTERN_ASN, p[1])
        \/ key \in {<<"N", "I">>, <<"N", "6">>} /\ Len(p) >= 2
              /\ ~re_match(PATTERN_MASK, p[2])
        \/ key = <<"N", "O">> /\ ~re_match(PATTERN_ONION, p[1])
        \/ key = <<"A", "M">> /\ ~re_match(PATTERN_USER, p[1])
        \/ key \in {<<"A", "H">>, <<"A", "G">>} /\ ~re_match(PATTERN_HOST, p[1])

IsNode(n) ==
    /\ DOMAIN n = {"is_person", "layer", "protocol", "params", "meta"}
    /\ n.is_person \in BOOLEAN
    /\ n.layer \in AZ
    /\ n.protocol \in AZ

\* C9: validate ends with a node or None and never raises; when the rule
\* needs a field the params do not have, or a checked constraint fails, the
\* result is None.
C9_FailureIsAValue ==
    /\ pc # "raised"
    /\ Validated => (node = None \/ (Len(node) = 1 /\ IsNode(node[1])))
    /\ (Validated /\ HasColon(ramp) /\ (MissingField(ramp) \/ ConstraintFails(ramp)))
           => node = None

\* "P/L:868.100/7", well-formed as far as it goes, has been rejected for its
\* missing fields 2 and 3.
C9_Witness ==
    /\ pc = "exit"
    /\ ramp = <<"P", "/", "L", ":", "8", "6", "8", ".", "1", "0", "0", "/", "7">>
    /\ MissingField(ramp)
    /\ ~ConstraintFails(ramp)
    /\ node = None

-----------------------------------------------------------------------------
(* C10 *)

\* The number of named fields of a protocol's formatter.
NamedFields(key) ==
    IF key = <<"P", "L">> THEN 4 ELSE IF key = <<"N", "O">> THEN 3 ELSE 2

\* The descriptive rendering of n: "<name> (<description>)", then one line
\* per named field, then the ID line of a node with meta.
Descriptive(n, o) ==
    LET info == get_info(n)
        key == <<n.layer, n.protocol>>
    IN  /\ info # None
        /\ Len(info[1].params) = NamedFields(key)
        /\ o = join(<<"\n">>,
                    <<PROTOCOLS[key].name \o <<" ", "(", ")">>>>
                        \o [i \in 1..NamedFields(key) |->
                               info[1].params[i].k \o <<":", " ">> \o info[1].params[i].v]
                        \o (IF Truthy(n.meta) THEN <<<<"I", "D", ":", " ">> \o n.meta[1]>>
                            ELSE <<>>))
        /\ o # to_uri(n)

\* An accepted input of a protocol of the registry, with params, was printed
\* as text.
RecognizedPrinted ==
    /\ pc = "done"
    /\ ~ascii
    /\ <<node[1].layer, node[1].protocol>> \in DOMAIN PROTOCOLS
    /\ node[1].params # None

\* C10 (as claimed): an accepted input whose pair is in the registry and
\* whose params are present is always printed in the descriptive rendering,
\* never as the raw URI.
C10_ValidatedRenderable == RecognizedPrinted => Descriptive(node[1], out)

\* C10 (amended): so it is when the params have at least two '/'-separated
\* fields; with one field only the accepted input is printed as its raw URI.
C10_RenderableWithTwoFields ==
    RecognizedPrinted =>
        IF Len(split(node[1].params[1], "/")) >= 2
        THEN Descriptive(node[1], out)
        ELSE out = to_uri(node[1])

\* "P/W:999/7" has been printed in the descriptive rendering.
C10_Witness ==
    /\ RecognizedPrinted
    /\ ramp = <<"P", "/", "W", ":", "9", "9", "9", "/", "7">>
    /\ Descriptive(node[1], out)

=============================================================================
